---- MODULE Spec2Model ----
(***************************************************************************)
(* Model of the Ansible module sqs_queue (src/sqs_queue/sqs_queue.py, and  *)
(* the earlier src/sqs_queue.py): reconciliation of one SQS queue against  *)
(* the task's parameters through the boto3 client.                         *)
(*                                                                         *)
(* A Python string is a sequence of lexical tokens (a digit, a punctuation *)
(* mark, a blank, or a word); str(), lower(), json.dumps and json.loads    *)
(* work on these sequences.                                                *)
(***************************************************************************)
EXTENDS Integers, Sequences, FiniteSets, TLC

\* ------------------------------------------------------------------------
\* Bounds of the model
\* ------------------------------------------------------------------------
\* at most this many of the seven optional attribute parameters are given
MaxSet == 2
\* at most this many attributes of a pre-existing queue differ from the
\* values of a newly created queue
MaxDrift == 1

\* ------------------------------------------------------------------------
\* Python values and strings
\* ------------------------------------------------------------------------
Digits == <<"0", "1", "2", "3", "4", "5", "6", "7", "8", "9">>

IsDigit(t) == \E i \in 1..10 : Digits[i] = t

DigitVal(t) == (CHOOSE i \in 1..10 : Digits[i] = t) - 1

\* str(n) of a non-negative int
RECURSIVE IntToStr(_)
IntToStr(n) ==
    IF n < 10 THEN <<Digits[n + 1]>>
    ELSE IntToStr(n \div 10) \o <<Digits[(n % 10) + 1]>>

\* str.lower() of one token
LowerTok(t) ==
    CASE t = "True" -> "true"
      [] t = "False" -> "false"
      [] t = "maxReceiveCount" -> "maxreceivecount"
      [] t = "deadLetterTargetArn" -> "deadlettertargetarn"
      [] t = "arn:aws:sqs:DLQ" -> "arn:aws:sqs:dlq"
      [] OTHER -> t

\* str.lower()
lower(s) == [i \in 1..Len(s) |-> LowerTok(s[i])]

\* a parameter value of the module: None, an int, a bool or a dict
None == [kind |-> "none", i |-> 0, b |-> FALSE, d |-> <<>>]
IntV(n) == [kind |-> "int", i |-> n, b |-> FALSE, d |-> <<>>]
BoolV(x) == [kind |-> "bool", i |-> 0, b |-> x, d |-> <<>>]
DictV(doc) == [kind |-> "dict", i |-> 0, b |-> FALSE, d |-> doc]
\* a str value (the result of json.dumps)
StrV(s) == [kind |-> "str", i |-> 0, b |-> FALSE, d |-> s]

\* bool(value)
Truthy(v) ==
    CASE v.kind = "none" -> FALSE
      [] v.kind = "int" -> v.i # 0
      [] v.kind = "bool" -> v.b
      [] v.kind = "dict" -> DOMAIN v.d # {}
      [] v.kind = "str" -> v.d # <<>>

\* value == 0 (False == 0 holds in Python)
EqualsZero(v) ==
    CASE v.kind = "int" -> v.i = 0
      [] v.kind = "bool" -> ~v.b
      [] OTHER -> FALSE

\* str(value)
str(v) ==
    CASE v.kind = "none" -> <<"None">>
      [] v.kind = "int" -> IntToStr(v.i)
      [] v.kind = "bool" -> IF v.b THEN <<"True">> ELSE <<"False">>
      [] v.kind = "str" -> v.d

\* ------------------------------------------------------------------------
\* JSON: a document is a function from keys to JSON values
\* ------------------------------------------------------------------------
JStr(s) == [t |-> "str", s |-> s, n |-> 0]
JNum(n) == [t |-> "num", s |-> "", n |-> n]

\* the order of Python's sorted() on the keys that occur
KeyOrder == <<"deadLetterTargetArn", "deadlettertargetarn", "id",
              "maxReceiveCount", "maxreceivecount", "version">>

KeyRank(k) == CHOOSE i \in 1..Len(KeyOrder) : KeyOrder[i] = k

RECURSIVE SortedKeys(_)
SortedKeys(S) ==
    IF S = {} THEN <<>>
    ELSE LET k == CHOOSE x \in S : \A y \in S : KeyRank(x) <= KeyRank(y)
         IN <<k>> \o SortedKeys(S \ {k})

dumps_value(v) == IF v.t = "str" THEN <<"\"", v.s, "\"">> ELSE IntToStr(v.n)

RECURSIVE dumps_items(_, _)
dumps_items(doc, ks) ==
    IF ks = <<>> THEN <<>>
    ELSE <<"\"", Head(ks), "\"", ":", " ">> \o dumps_value(doc[Head(ks)])
         \o (IF Len(ks) > 1 THEN <<",", " ">> ELSE <<>>)
         \o dumps_items(doc, Tail(ks))

\* json.dumps(doc, sort_keys=True)
json_dumps(doc) == <<"{">> \o dumps_items(doc, SortedKeys(DOMAIN doc)) \o <<"}">>

IsWs(t) == t = " "

RECURSIVE SkipWs(_, _)
SkipWs(s, i) == IF i <= Len(s) /\ IsWs(s[i]) THEN SkipWs(s, i + 1) ELSE i

RECURSIVE ParseDigits(_, _, _)
ParseDigits(s, i, acc) ==
    IF i <= Len(s) /\ IsDigit(s[i])
    THEN ParseDigits(s, i + 1, 10 * acc + DigitVal(s[i]))
    ELSE [n |-> acc, next |-> i]

ParseFail == [ok |-> FALSE, v |-> JNum(0), next |-> 0]

IsWord(t) == t \notin {"\"", "{", "}", ":", ",", " "}

\* a JSON string: a quote, one word, a quote
ParseString(s, i) ==
    IF i + 2 <= Len(s) /\ s[i] = "\"" /\ IsWord(s[i + 1]) /\ s[i + 2] = "\""
    THEN [ok |-> TRUE, v |-> JStr(s[i + 1]), next |-> i + 3]
    ELSE ParseFail

ParseValue(s, i) ==
    IF i > Len(s) THEN ParseFail
    ELSE IF s[i] = "\"" THEN ParseString(s, i)
    ELSE IF IsDigit(s[i])
         THEN LET r == ParseDigits(s, i, 0)
              IN [ok |-> TRUE, v |-> JNum(r.n), next |-> r.next]
    ELSE ParseFail

LoadsFail == [ok |-> FALSE, d |-> <<>>]

\* the document doc with key set to value v
Put(doc, key, v) == [x \in (DOMAIN doc) \cup {key} |-> IF x = key THEN v ELSE doc[x]]

RECURSIVE ParseMembers(_, _, _)

\* after a member: e is the position of the next token, "}" or ","
AfterMember(s, e, doc) ==
    IF e > Len(s) THEN LoadsFail
    ELSE IF s[e] = "}"
         THEN IF SkipWs(s, e + 1) > Len(s) THEN [ok |-> TRUE, d |-> doc] ELSE LoadsFail
    ELSE IF s[e] = "," THEN ParseMembers(s, SkipWs(s, e + 1), doc)
    ELSE LoadsFail

\* after the value v of the member key
AfterValue(s, key, v, doc) ==
    IF ~v.ok THEN LoadsFail ELSE AfterMember(s, SkipWs(s, v.next), Put(doc, key, v.v))

\* after the key: c is the position of the next token, ":"
AfterKey(s, key, c, doc) ==
    IF c > Len(s) \/ s[c] # ":" THEN LoadsFail
    ELSE AfterValue(s, key, ParseValue(s, SkipWs(s, c + 1)), doc)

\* k is the key read
ParseMember(s, k, doc) ==
    IF ~k.ok THEN LoadsFail ELSE AfterKey(s, k.v.s, SkipWs(s, k.next), doc)

\* the members of an object from position i on, doc holding those read
ParseMembers(s, i, doc) == ParseMember(s, ParseString(s, i), doc)

\* an object from its "{" at position i on, j the position of the next token
ParseObject(s, i, j) ==
    IF i > Len(s) \/ s[i] # "{" \/ j > Len(s) THEN LoadsFail
    ELSE IF s[j] = "}"
         THEN IF SkipWs(s, j + 1) > Len(s) THEN [ok |-> TRUE, d |-> <<>>] ELSE LoadsFail
    ELSE ParseMembers(s, j, <<>>)

\* json.loads(s) of an object; ok = FALSE where Python raises ValueError
json_loads(s) == ParseObject(s, SkipWs(s, 1), SkipWs(s, SkipWs(s, 1) + 1))

\* ------------------------------------------------------------------------
\* The remote service behind the boto3 client
\* ------------------------------------------------------------------------
\* the attribute catalog of update_sqs_queue, in call order
Catalog == <<
    [param |-> "default_visibility_timeout", attribute |-> "VisibilityTimeout"],
    [param |-> "message_retention_period", attribute |-> "MessageRetentionPeriod"],
    [param |-> "maximum_message_size", attribute |-> "MaximumMessageSize"],
    [param |-> "delivery_delay", attribute |-> "DelaySeconds"],
    [param |-> "receive_message_wait_time", attribute |-> "ReceiveMessageWaitTimeSeconds"],
    [param |-> "policy", attribute |-> "Policy"],
    [param |-> "redrive_policy", attribute |-> "RedrivePolicy"],
    [param |-> "fifo_content_based_deduplication", attribute |-> "ContentBasedDeduplication"] >>

AttributeNames == {Catalog[i].attribute : i \in 1..Len(Catalog)}

ParamNames == {Catalog[i].param : i \in 1..Len(Catalog)}

\* the parameters without a default
OptionalParams == ParamNames \ {"fifo_content_based_deduplication"}

\* the suffix appended for queue_type fifo
FifoSuffix == <<".fifo">>

EndsWithFifo(name) == Len(name) > 0 /\ name[Len(name)] = ".fifo"

\* the queue names the service accepts: a FIFO queue's name is one word
\* followed by the suffix once, a standard queue's name is one word
ValidQueueName(name, fifo) ==
    IF fifo THEN Len(name) = 2 /\ name[1] # ".fifo" /\ name[2] = ".fifo"
    ELSE Len(name) = 1 /\ name[1] # ".fifo"

\* the queues the service can hold
RemoteNames == {<<"orders">>, <<"orders", ".fifo">>}

\* the attributes of a queue right after create_queue; an attribute without
\* a value is the empty string
NewQueueAttrs(fifo) ==
    [a \in AttributeNames |->
        CASE a = "VisibilityTimeout" -> IntToStr(30)
          [] a = "MessageRetentionPeriod" -> IntToStr(345600)
          [] a = "MaximumMessageSize" -> IntToStr(262144)
          [] a = "DelaySeconds" -> IntToStr(0)
          [] a = "ReceiveMessageWaitTimeSeconds" -> IntToStr(0)
          [] a = "ContentBasedDeduplication" -> IF fifo THEN <<"false">> ELSE <<>>
          [] OTHER -> <<>>]

NoQueue == [exists |-> FALSE, fifo |-> FALSE, attrs |-> [a \in AttributeNames |-> <<>>]]

QueueExists(qs, name) == name \in DOMAIN qs /\ qs[name].exists

\* one call of the client, as the service saw it; res is "ok",
\* "NonExistentQueue" (a ClientError) or "error" (any other ClientError)
Call(op, name, attribute, value, fifo, res) ==
    [op |-> op, name |-> name, attribute |-> attribute, value |-> value,
     fifo |-> fifo, res |-> res]

\* the f-th call of an invocation is the one that fails (f = 0: none)
Faulted(cx, f) == Len(cx.calls) + 1 = f

Log(cx, c) == [cx EXCEPT !.calls = Append(@, c)]

\* connection.get_queue_url(QueueName=name)
get_queue_url(cx, name, f) ==
    LET res == IF Faulted(cx, f) THEN "error"
               ELSE IF QueueExists(cx.queues, name) THEN "ok"
               ELSE "NonExistentQueue"
    IN [cx |-> Log(cx, Call("get_queue_url", name, "", <<>>, FALSE, res)),
        exc |-> IF res = "ok" THEN "none" ELSE "ClientError"]

\* connection.create_queue(QueueName=name[, Attributes={'FifoQueue':'True'}])
create_queue(cx, name, fifo, f) ==
    LET ok == ~Faulted(cx, f) /\ name \in RemoteNames /\ ValidQueueName(name, fifo)
        qs == IF cx.queues[name].exists THEN cx.queues
              ELSE [cx.queues EXCEPT ![name] =
                       [exists |-> TRUE, fifo |-> fifo, attrs |-> NewQueueAttrs(fifo)]]
    IN IF ok
       THEN [cx |-> [queues |-> qs,
                     calls |-> Append(cx.calls, Call("create_queue", name, "", <<>>, fifo, "ok"))],
             exc |-> "none"]
       ELSE [cx |-> Log(cx, Call("create_queue", name, "", <<>>, fifo, "error")),
             exc |-> "ClientError"]

\* connection.get_queue_attributes(QueueUrl=url, AttributeNames=[attribute])
\* ['Attributes'][attribute]; an attribute without a value is missing from
\* the response and the subscript raises KeyError
get_queue_attributes(cx, url, attribute, f) ==
    LET failed == Faulted(cx, f) \/ ~QueueExists(cx.queues, url)
        value == IF failed THEN <<>> ELSE cx.queues[url].attrs[attribute]
    IN [cx |-> Log(cx, Call("get_queue_attributes", url, attribute, <<>>, FALSE,
                            IF failed THEN "error" ELSE "ok")),
        exc |-> IF failed THEN "ClientError"
                ELSE IF value = <<>> THEN "KeyError" ELSE "none",
        value |-> value]

\* connection.set_queue_attributes(QueueUrl=url, Attributes={attribute: value});
\* the service stores the string as written
set_queue_attributes(cx, url, attribute, value, f) ==
    LET failed == Faulted(cx, f) \/ ~QueueExists(cx.queues, url)
    IN IF failed
       THEN [cx |-> Log(cx, Call("set_queue_attributes", url, attribute, value, FALSE, "error")),
             exc |-> "ClientError"]
       ELSE [cx |-> [queues |-> [cx.queues EXCEPT ![url].attrs[attribute] = value],
                     calls |-> Append(cx.calls,
                                 Call("set_queue_attributes", url, attribute, value, FALSE, "ok"))],
             exc |-> "none"]

\* connection.delete_queue(QueueUrl=url)
delete_queue(cx, url, f) ==
    LET failed == Faulted(cx, f) \/ ~QueueExists(cx.queues, url)
    IN IF failed
       THEN [cx |-> Log(cx, Call("delete_queue", url, "", <<>>, FALSE, "error")),
             exc |-> "ClientError"]
       ELSE [cx |-> [queues |-> [cx.queues EXCEPT ![url] = NoQueue],
                     calls |-> Append(cx.calls, Call("delete_queue", url, "", <<>>, FALSE, "ok"))],
             exc |-> "none"]

\* connection.get_queue_attributes(QueueUrl=url, AttributeNames=['All'])
get_all_queue_attributes(cx, url, f) ==
    LET failed == Faulted(cx, f) \/ ~QueueExists(cx.queues, url)
    IN [cx |-> Log(cx, Call("get_queue_attributes", url, "All", <<>>, FALSE,
                            IF failed THEN "error" ELSE "ok")),
        exc |-> IF failed THEN "ClientError" ELSE "none",
        attrs |-> IF failed THEN NoQueue.attrs ELSE cx.queues[url].attrs]

\* ------------------------------------------------------------------------
\* src/sqs_queue/sqs_queue.py
\* ------------------------------------------------------------------------
\* what a function hands back: the service and call log after it, the value
\* it returns, and the exception that leaves it ("none" when it returns)
returned(cx, ret, exc) == [cx |-> cx, ret |-> ret, exc |-> exc]

\* not value
Skipped_falsy(value) == ~Truthy(value)

\* not value and value != 0
Skipped(value) == ~Truthy(value) /\ ~EqualsZero(value)

IsJsonAttribute(attribute) == attribute \in {"Policy", "RedrivePolicy"}

\* value after line 310: json.dumps of a dict attribute
desired_value(attribute, value) ==
    IF IsJsonAttribute(attribute) THEN StrV(json_dumps(value.d)) ELSE value

\* existing_value after the read r: '' when the read raised
existing_value(r) == IF r.exc # "none" THEN <<>> ELSE r.value

\* json.dumps(l, sort_keys=True) of the loaded document l
redumped(l) ==
    IF l.ok THEN [exc |-> "none", s |-> json_dumps(l.d)]
    ELSE [exc |-> "ValueError", s |-> <<>>]

\* existing_value after lines 311-312
normalized(attribute, existing) ==
    IF IsJsonAttribute(attribute) /\ existing # <<>> THEN redumped(json_loads(existing))
    ELSE [exc |-> "none", s |-> existing]

\* a write whose failure is swallowed
written_swallowed(w) == returned(w.cx, TRUE, "none")

\* the outcome of the write w
written(w) == returned(w.cx, w.exc = "none", w.exc)

\* set_queue_attribute writing also in check mode
write_if_different_nocheck(cx, queue_url, attribute, value, existing, check_mode, f) ==
    IF existing.exc # "none" THEN returned(cx, FALSE, existing.exc)
    ELSE IF lower(str(value)) # existing.s
    THEN written(set_queue_attributes(cx, queue_url, attribute, str(value), f))
    ELSE returned(cx, FALSE, "none")

\* set_queue_attribute, lines 314-319
write_if_different(cx, queue_url, attribute, value, existing, check_mode, f) ==
    IF existing.exc # "none" THEN returned(cx, FALSE, existing.exc)
    ELSE IF lower(str(value)) # existing.s
    THEN IF ~check_mode
         THEN written(set_queue_attributes(cx, queue_url, attribute, str(value), f))
         ELSE returned(cx, TRUE, "none")
    ELSE returned(cx, FALSE, "none")

\* set_queue_attribute letting the exception of the read through
compare_and_write_fatal(r, queue_url, attribute, value, check_mode, f) ==
    IF r.exc # "none" THEN returned(r.cx, FALSE, r.exc)
    ELSE write_if_different(r.cx, queue_url, attribute, desired_value(attribute, value),
                            normalized(attribute, r.value), check_mode, f)

\* set_queue_attribute, lines 306-319, r the read of lines 303-304
compare_and_write(r, queue_url, attribute, value, check_mode, f) ==
    write_if_different(r.cx, queue_url, attribute, desired_value(attribute, value),
                       normalized(attribute, existing_value(r)), check_mode, f)

\* set_queue_attribute skipping None only
set_queue_attribute_noneonly(cx, queue_url, attribute, value, check_mode, f) ==
    IF value = None THEN returned(cx, FALSE, "none")
    ELSE compare_and_write(get_queue_attributes(cx, queue_url, attribute, f),
                           queue_url, attribute, value, check_mode, f)

\* lines 298-319
set_queue_attribute(cx, queue_url, attribute, value, check_mode, f) ==
    IF Skipped(value) THEN returned(cx, FALSE, "none")
    ELSE compare_and_write(get_queue_attributes(cx, queue_url, attribute, f),
                           queue_url, attribute, value, check_mode, f)

RECURSIVE update_from(_, _, _, _, _, _, _)

\* update_sqs_queue returning at the first attribute found different
update_next_shortcircuit(r, i, changed, queue_url, check_mode, attrs, f) ==
    IF r.exc # "none" THEN returned(r.cx, changed, r.exc)
    ELSE IF r.ret THEN returned(r.cx, TRUE, "none")
    ELSE update_from(i + 1, r.cx, changed, queue_url, check_mode, attrs, f)

\* changed = r or changed, r the i-th set_queue_attribute
update_next(r, i, changed, queue_url, check_mode, attrs, f) ==
    IF r.exc # "none" THEN returned(r.cx, changed, r.exc)
    ELSE update_from(i + 1, r.cx, r.ret \/ changed, queue_url, check_mode, attrs, f)

\* update_sqs_queue from the i-th catalog entry on
update_from(i, cx, changed, queue_url, check_mode, attrs, f) ==
    IF i > Len(Catalog) THEN returned(cx, changed, "none")
    ELSE update_next(set_queue_attribute(cx, queue_url, Catalog[i].attribute,
                                         attrs[Catalog[i].param], check_mode, f),
                     i, changed, queue_url, check_mode, attrs, f)

update_sqs_queue(cx, queue_url, check_mode, attrs, f) ==
    update_from(1, cx, FALSE, queue_url, check_mode, attrs, f)

\* what an invocation leaves behind: the remote queues, the calls made, the
\* way it ended ("exit_json", "fail_json", or "exception" for a traceback),
\* the result's 'changed' key (has_changed: the key is present) and the
\* attribute values of the final read (has_final: they were read)
Outcome(cx, how, has_changed, changed, has_final, final, name) ==
    [queues |-> cx.queues, calls |-> cx.calls, how |-> how,
     has_changed |-> has_changed, changed |-> changed,
     has_final |-> has_final, final |-> final, name |-> name]

\* an exception ends the invocation: fail_json for a ClientError (the except
\* clause of the handler), a traceback for any other
Raised(cx, exc, has_changed, changed, name) ==
    Outcome(cx, IF exc = "ClientError" THEN "fail_json" ELSE "exception",
            has_changed, changed, FALSE, NoQueue.attrs, name)

\* the service and the call log at the start of an invocation
Start(queues0) == [queues |-> queues0, calls |-> <<>>]

\* lines 250-263, g the read of line 249
final_read(g, queue_name, has_changed, changed) ==
    IF g.exc # "none" THEN Raised(g.cx, g.exc, has_changed, changed, queue_name)
    ELSE Outcome(g.cx, "exit_json", has_changed, changed, TRUE, g.attrs, queue_name)

\* the final read made in check mode as well
finish_present_always(cx, queue_url, queue_name, has_changed, changed, check_mode, f) ==
    final_read(get_all_queue_attributes(cx, queue_url, f), queue_name, has_changed, changed)

\* lines 248-263: the final read and the exit
finish_present(cx, queue_url, queue_name, has_changed, changed, check_mode, f) ==
    IF check_mode
    THEN Outcome(cx, "exit_json", has_changed, changed, FALSE, NoQueue.attrs, queue_name)
    ELSE final_read(get_all_queue_attributes(cx, queue_url, f), queue_name, has_changed, changed)

\* the result of update_sqs_queue dropped in check mode
updated_existing_silent(u, queue_name, check_mode, f) ==
    IF u.exc # "none" THEN Raised(u.cx, u.exc, FALSE, FALSE, queue_name)
    ELSE finish_present(u.cx, queue_name, queue_name, TRUE, ~check_mode /\ u.ret, check_mode, f)

\* line 234, u the update_sqs_queue of an existing queue
updated_existing(u, queue_name, check_mode, f) ==
    IF u.exc # "none" THEN Raised(u.cx, u.exc, FALSE, FALSE, queue_name)
    ELSE finish_present(u.cx, queue_name, queue_name, TRUE, u.ret, check_mode, f)

\* line 246, u the update_sqs_queue of the queue just created
updated_created(u, queue_name, check_mode, f) ==
    IF u.exc # "none" THEN Raised(u.cx, u.exc, TRUE, TRUE, queue_name)
    ELSE finish_present(u.cx, queue_name, queue_name, TRUE, TRUE, check_mode, f)

\* a new queue left unsynchronized
created_noupdate(c, queue_name, queue_attributes, check_mode, f) ==
    IF c.exc # "none" THEN Raised(c.cx, c.exc, FALSE, FALSE, queue_name)
    ELSE finish_present(c.cx, queue_name, queue_name, TRUE, TRUE, check_mode, f)

\* lines 240-246, c the create_queue
created(c, queue_name, queue_attributes, check_mode, f) ==
    IF c.exc # "none" THEN Raised(c.cx, c.exc, FALSE, FALSE, queue_name)
    ELSE updated_created(update_sqs_queue(c.cx, queue_name, check_mode, queue_attributes, f),
                         queue_name, check_mode, f)

\* every queue created without the FifoQueue attribute
resolved_noflag(r, queue_name, queue_type, queue_attributes, check_mode, f) ==
    IF r.exc = "none"
    THEN updated_existing(update_sqs_queue(r.cx, queue_name, check_mode, queue_attributes, f),
                          queue_name, check_mode, f)
    ELSE IF ~check_mode
    THEN created(create_queue(r.cx, queue_name, FALSE, f),
                 queue_name, queue_attributes, check_mode, f)
    ELSE finish_present(r.cx, queue_name, queue_name, FALSE, FALSE, check_mode, f)

\* lines 229-257, r the get_queue_url of line 228: every exception of it
\* leaves existing_queue False
resolved(r, queue_name, queue_type, queue_attributes, check_mode, f) ==
    IF r.exc = "none"
    THEN updated_existing(update_sqs_queue(r.cx, queue_name, check_mode, queue_attributes, f),
                          queue_name, check_mode, f)
    ELSE IF ~check_mode
    THEN created(create_queue(r.cx, queue_name, queue_type = "fifo", f),
                 queue_name, queue_attributes, check_mode, f)
    ELSE finish_present(r.cx, queue_name, queue_name, FALSE, FALSE, check_mode, f)

\* queue_name after line 212
queue_name_of(p) == IF p.queue_type = "fifo" THEN p.name \o FifoSuffix ELSE p.name

\* queue_attributes with the deduplication flag for every queue_type
queue_attributes_of_any(p) == p.attrs

\* queue_attributes after line 214
queue_attributes_of(p) ==
    IF p.queue_type = "fifo" THEN p.attrs
    ELSE [p.attrs EXCEPT !.fifo_content_based_deduplication = None]

create_or_update_sqs_queue(queues0, p, check_mode, f) ==
    resolved(get_queue_url(Start(queues0), queue_name_of(p), f),
             queue_name_of(p), p.queue_type, queue_attributes_of(p), check_mode, f)

\* lines 334-344, d the delete_queue
deleted(d, queue_name) ==
    IF d.exc # "none" THEN Raised(d.cx, d.exc, FALSE, FALSE, queue_name)
    ELSE Outcome(d.cx, "exit_json", TRUE, TRUE, FALSE, NoQueue.attrs, queue_name)

\* delete_sqs_queue deleting also in check mode
resolved_for_delete_nocheck(r, queue_name, check_mode, f) ==
    IF r.exc # "none" THEN Raised(r.cx, r.exc, FALSE, FALSE, queue_name)
    ELSE deleted(delete_queue(r.cx, queue_name, f), queue_name)

\* lines 332-344, r the get_queue_url of line 331
resolved_for_delete(r, queue_name, check_mode, f) ==
    IF r.exc # "none" THEN Raised(r.cx, r.exc, FALSE, FALSE, queue_name)
    ELSE IF ~check_mode THEN deleted(delete_queue(r.cx, queue_name, f), queue_name)
    ELSE Outcome(r.cx, "exit_json", TRUE, TRUE, FALSE, NoQueue.attrs, queue_name)

delete_sqs_queue(queues0, p, check_mode, f) ==
    resolved_for_delete(get_queue_url(Start(queues0), p.name, f), p.name, check_mode, f)

\* ------------------------------------------------------------------------
\* src/sqs_queue.py, the earlier version of the module
\* ------------------------------------------------------------------------
\* set_queue_attribute, lines 263-268: no lower()
legacy_write_if_different(cx, queue_url, attribute, value, existing, check_mode, f) ==
    IF str(value) # existing
    THEN IF ~check_mode
         THEN written(set_queue_attributes(cx, queue_url, attribute, str(value), f))
         ELSE returned(cx, TRUE, "none")
    ELSE returned(cx, FALSE, "none")

\* set_queue_attribute: AttributeNames=attribute is a str where the client
\* wants a list, and the response is subscripted with [attribute], so the
\* read raises before a request is sent; existing_value is always '' and
\* json.loads is never reached
legacy_set_queue_attribute(cx, queue_url, attribute, value, check_mode, f) ==
    IF Skipped(value) THEN returned(cx, FALSE, "none")
    ELSE legacy_write_if_different(cx, queue_url, attribute, desired_value(attribute, value),
                                   <<>>, check_mode, f)

\* the catalog of the earlier update_sqs_queue: no ContentBasedDeduplication
LegacyCatalog == SubSeq(Catalog, 1, Len(Catalog) - 1)

RECURSIVE legacy_update_from(_, _, _, _, _, _, _)

legacy_update_next(r, i, changed, queue_url, check_mode, attrs, f) ==
    IF r.exc # "none" THEN returned(r.cx, changed, r.exc)
    ELSE legacy_update_from(i + 1, r.cx, r.ret \/ changed, queue_url, check_mode, attrs, f)

legacy_update_from(i, cx, changed, queue_url, check_mode, attrs, f) ==
    IF i > Len(LegacyCatalog) THEN returned(cx, changed, "none")
    ELSE legacy_update_next(
             legacy_set_queue_attribute(cx, queue_url, LegacyCatalog[i].attribute,
                                        attrs[LegacyCatalog[i].param], check_mode, f),
             i, changed, queue_url, check_mode, attrs, f)

legacy_update_sqs_queue(cx, queue_url, check_mode, attrs, f) ==
    legacy_update_from(1, cx, FALSE, queue_url, check_mode, attrs, f)

\* line 196 and the exit, u the update_sqs_queue
legacy_updated(u, queue_name) ==
    IF u.exc # "none" THEN Raised(u.cx, u.exc, FALSE, FALSE, queue_name)
    ELSE Outcome(u.cx, "exit_json", TRUE, u.ret, FALSE, NoQueue.attrs, queue_name)

\* lines 194-216, r the get_queue_url of line 193: a missing queue is a
\* ClientError
legacy_resolved(r, queue_name, attrs, check_mode, f) ==
    IF r.exc # "none" THEN Raised(r.cx, r.exc, FALSE, FALSE, queue_name)
    ELSE legacy_updated(legacy_update_sqs_queue(r.cx, queue_name, check_mode, attrs, f),
                        queue_name)

legacy_create_or_update_sqs_queue(queues0, p, check_mode, f) ==
    legacy_resolved(get_queue_url(Start(queues0), p.name, f), p.name,
                    [k \in OptionalParams |-> p.attrs[k]], check_mode, f)

\* main() calls delete_sqs_queue, which the earlier version does not
\* define: NameError
legacy_delete_sqs_queue(queues0, p, check_mode, f) ==
    Raised(Start(queues0), "NameError", FALSE, FALSE, p.name)

\* ------------------------------------------------------------------------
\* The task's parameters and the queues the service holds at the start
\* ------------------------------------------------------------------------
\* policy documents of the task
PolicyDoc == [id |-> JStr("p1"), version |-> JStr("v1")]

\* the redrive_policy of the module's EXAMPLES
RedriveDoc == [maxReceiveCount |-> JNum(5), deadLetterTargetArn |-> JStr("arn:aws:sqs:DLQ")]

\* the values a task gives to the attribute parameters (argument_spec)
AttrChoices ==
    [default_visibility_timeout : {None, IntV(0), IntV(120)},
     message_retention_period : {None, IntV(86400)},
     maximum_message_size : {None, IntV(1024)},
     delivery_delay : {None, IntV(5)},
     receive_message_wait_time : {None, IntV(20)},
     policy : {None, DictV(<<>>), DictV(PolicyDoc)},
     redrive_policy : {None, DictV(RedriveDoc)},
     fifo_content_based_deduplication : {BoolV(FALSE), BoolV(TRUE)}]

AttrSpecs == {a \in AttrChoices : Cardinality({k \in OptionalParams : a[k] # None}) <= MaxSet}

Names == {<<"orders">>, <<"orders", ".fifo">>}

Params == [name : Names, queue_type : {"standard", "fifo"}, attrs : AttrSpecs]

\* PolicyDoc with other blanks and the keys in the other order
PolicySpaced == <<"{", " ", "\"", "version", "\"", ":", "\"", "v1", "\"", ",",
                  "\"", "id", "\"", " ", ":", " ", "\"", "p1", "\"", " ", "}">>

\* RedriveDoc without blanks and the keys in the other order
RedrivePermuted == <<"{", "\"", "maxReceiveCount", "\"", ":", "5", ",",
                     "\"", "deadLetterTargetArn", "\"", ":", "\"", "arn:aws:sqs:DLQ", "\"", "}">>

\* a Policy value that is not JSON
NotJson == <<"not-json">>

\* the attribute values a queue may hold at the start
RemoteChoices(fifo) ==
    [VisibilityTimeout : {IntToStr(30), IntToStr(0), IntToStr(120)},
     MessageRetentionPeriod : {IntToStr(345600), IntToStr(86400)},
     MaximumMessageSize : {IntToStr(262144), IntToStr(1024)},
     DelaySeconds : {IntToStr(0), IntToStr(5)},
     ReceiveMessageWaitTimeSeconds : {IntToStr(0), IntToStr(20)},
     Policy : {<<>>, json_dumps(PolicyDoc), PolicySpaced, NotJson},
     RedrivePolicy : {<<>>, json_dumps(RedriveDoc), RedrivePermuted},
     ContentBasedDeduplication : IF fifo THEN {<<"false">>, <<"true">>} ELSE {<<>>}]

RemoteAttrs(fifo) ==
    {a \in RemoteChoices(fifo) :
        Cardinality({k \in AttributeNames : a[k] # NewQueueAttrs(fifo)[k]}) <= MaxDrift}

NoQueues == [n \in RemoteNames |-> NoQueue]

\* a FIFO queue's name ends with the suffix
OneQueue(n, a) ==
    [NoQueues EXCEPT ![n] = [exists |-> TRUE, fifo |-> EndsWithFifo(n), attrs |-> a]]

\* no queue, or one queue
InitQueues ==
    {NoQueues} \cup
    UNION {{OneQueue(n, a) : a \in RemoteAttrs(EndsWithFifo(n))} : n \in RemoteNames}

\* ------------------------------------------------------------------------
\* State
\* ------------------------------------------------------------------------
VARIABLES queues, params, last

vars == <<queues, params, last>>

\* result['msg'], which the except clause of a handler sets before fail_json
FailureMessage(state, how) ==
    IF how # "fail_json" THEN ""
    ELSE IF state = "present" THEN "Failed to create/update sqs queue due to error: "
    ELSE "Failed to delete sqs queue due to error: "

\* the record of an invocation
Run(state, check_mode, o) ==
    [state |-> state, check_mode |-> check_mode, calls |-> o.calls, how |-> o.how,
     has_changed |-> o.has_changed, changed |-> o.changed,
     has_final |-> o.has_final, final |-> o.final, name |-> o.name,
     msg |-> FailureMessage(state, o.how)]

NoRun ==
    [state |-> "none", check_mode |-> FALSE, calls |-> <<>>, how |-> "none",
     has_changed |-> FALSE, changed |-> FALSE,
     has_final |-> FALSE, final |-> NoQueue.attrs, name |-> <<>>, msg |-> ""]

Init ==
    /\ queues \in InitQueues
    /\ params \in Params
    /\ last = NoRun

\* a bound on the calls of one invocation: get_queue_url, create_queue, a
\* read and a write per catalog entry, the final read
MaxCalls == 2 * Len(Catalog) + 3

\* the invocation with outcome o took place
Ran(state, check_mode, o) ==
    /\ queues' = o.queues
    /\ last' = Run(state, check_mode, o)
    /\ UNCHANGED params

\* the calls of an invocation that may fail when the calls up to the
\* limit-th may: limit = 0, every call is answered; n is the number of
\* calls of the undisturbed invocation
Faults(limit, n) == 0..(IF limit < n THEN limit ELSE n)

\* main() with state=present. The f-th remote call of the invocation fails
\* with a ClientError (f = 0: every call is answered); the calls before it
\* are those of the undisturbed invocation
Present(check_mode, limit) ==
    LET n == IF limit = 0 THEN 0
             ELSE Len(create_or_update_sqs_queue(queues, params, check_mode, 0).calls)
    IN \E f \in Faults(limit, n) :
          Ran("present", check_mode, create_or_update_sqs_queue(queues, params, check_mode, f))

\* main() with state=absent
Absent(check_mode, limit) ==
    LET n == IF limit = 0 THEN 0
             ELSE Len(delete_sqs_queue(queues, params, check_mode, 0).calls)
    IN \E f \in Faults(limit, n) :
          Ran("absent", check_mode, delete_sqs_queue(queues, params, check_mode, f))

\* main() of src/sqs_queue.py with state=present
LegacyPresent(check_mode, limit) ==
    LET n == IF limit = 0 THEN 0
             ELSE Len(legacy_create_or_update_sqs_queue(queues, params, check_mode, 0).calls)
    IN \E f \in Faults(limit, n) :
          Ran("present", check_mode,
              legacy_create_or_update_sqs_queue(queues, params, check_mode, f))

\* main() of src/sqs_queue.py with state=absent
LegacyAbsent(check_mode, limit) ==
    LET n == IF limit = 0 THEN 0
             ELSE Len(legacy_delete_sqs_queue(queues, params, check_mode, 0).calls)
    IN \E f \in Faults(limit, n) :
          Ran("absent", check_mode, legacy_delete_sqs_queue(queues, params, check_mode, f))

\* the service answers every call
Next ==
    \E check_mode \in BOOLEAN :
        \/ Present(check_mode, 0)
        \/ Absent(check_mode, 0)

Spec == Init /\ [][Next]_vars

\* the queues at the start of the behaviours in which calls fail: no queue,
\* or one queue as create_queue left it
InitFaults ==
    /\ Init
    /\ \A n \in RemoteNames :
          queues[n].exists => queues[n].attrs = NewQueueAttrs(queues[n].fifo)

\* any one call of an invocation may fail
NextFaults ==
    \E check_mode \in BOOLEAN :
        \/ Present(check_mode, MaxCalls)
        \/ Absent(check_mode, MaxCalls)

SpecFaults == InitFaults /\ [][NextFaults]_vars

\* the earlier version of the module, the service answering every call
NextLegacy ==
    \E check_mode \in BOOLEAN :
        \/ LegacyPresent(check_mode, 0)
        \/ LegacyAbsent(check_mode, 0)

SpecLegacy == Init /\ [][NextLegacy]_vars

\* ------------------------------------------------------------------------
\* Vocabulary of the properties
\* ------------------------------------------------------------------------
Mutating == {"set_queue_attributes", "create_queue", "delete_queue"}

\* the positions in the call log of run r of the calls with an op in ops
CallsOf(r, ops) == {i \in 1..Len(r.calls) : r.calls[i].op \in ops}

WritesOf(r, attribute) ==
    {i \in CallsOf(r, {"set_queue_attributes"}) : r.calls[i].attribute = attribute}

ReadsOf(r, attribute) ==
    {i \in CallsOf(r, {"get_queue_attributes"}) : r.calls[i].attribute = attribute}

\* the changed flag the caller sees: a result without the key counts as false
ReportedChanged(r) == r.has_changed /\ r.changed

\* what get_queue_url answered in run r
Resolution(r) == IF r.calls = <<>> THEN "none" ELSE r.calls[1].res

\* the i-th catalog attribute is given by the task p: a value other than
\* None and the empty document, the deduplication flag only for a FIFO queue
Given(p, i) ==
    LET v == p.attrs[Catalog[i].param]
    IN /\ v # None
       /\ v # DictV(<<>>)
       /\ Catalog[i].attribute = "ContentBasedDeduplication" => p.queue_type = "fifo"

ScalarEntries == {i \in 1..Len(Catalog) : Catalog[i].attribute \notin {"Policy", "RedrivePolicy"}}

JsonEntries == {i \in 1..Len(Catalog) : Catalog[i].attribute \in {"Policy", "RedrivePolicy"}}

\* the case-normalized string form of a scalar value
ScalarForm(v) ==
    IF v.kind = "bool" THEN (IF v.b THEN <<"true">> ELSE <<"false">>) ELSE IntToStr(v.i)

\* the raw string encodes the document doc
Encodes(raw, doc) == json_loads(raw).ok /\ json_loads(raw).d = doc

\* the remote string raw holds desired value v of the i-th catalog entry
SameValue(i, v, raw) ==
    IF i \in JsonEntries THEN Encodes(raw, v.d) ELSE raw = ScalarForm(v)

\* ------------------------------------------------------------------------
\* Properties
\* ------------------------------------------------------------------------
\* C1: an invocation in check mode, present or absent, makes no
\* set_queue_attributes, create_queue or delete_queue call and leaves the
\* queues of the service as they were.
C1_DryRunNeverMutates ==
    [][last'.check_mode => (queues' = queues /\ CallsOf(last', Mutating) = {})]_vars

\* a check-mode run on an existing queue that found a difference
C1_Witness == last.state = "present" /\ last.check_mode /\ ReportedChanged(last)

\* the queues differ from what the task p asks for: the queue get_queue_url
\* was asked for is missing, or a given attribute holds another value
RemoteDiffered(qs, p, r) ==
    \/ Resolution(r) = "NonExistentQueue"
    \/ /\ Resolution(r) = "ok"
       /\ \E i \in 1..Len(Catalog) :
             /\ Given(p, i)
             /\ ~SameValue(i, p.attrs[Catalog[i].param], qs[r.name].attrs[Catalog[i].attribute])

\* C2: of two consecutive successful invocations with state=present, not in
\* check mode, with the same parameters, the first reports changed=true if
\* the remote differed and the second reports changed=false and makes no
\* set_queue_attributes and no create_queue call.
C2_Idempotent ==
    [][(last'.state = "present" /\ ~last'.check_mode /\ last'.how = "exit_json") =>
          /\ RemoteDiffered(queues, params, last') => ReportedChanged(last')
          /\ (last.state = "present" /\ ~last.check_mode /\ last.how = "exit_json") =>
                /\ ~ReportedChanged(last')
                /\ CallsOf(last', {"set_queue_attributes", "create_queue"}) = {}]_vars

\* C3: in check mode with state=present, when the queue does not exist, the
\* invocation exits successfully with changed=true and without create_queue.
C3_DryRunAbsentReportsChanged ==
    (last.state = "present" /\ last.check_mode /\ Resolution(last) = "NonExistentQueue") =>
        /\ last.how = "exit_json"
        /\ ReportedChanged(last)
        /\ CallsOf(last, {"create_queue"}) = {}

\* C4: with state=absent, when get_queue_url reports that the queue does not
\* exist, the invocation exits successfully with changed=false and
\* delete_queue is not called.
C4_AbsentNotFound ==
    (last.state = "absent" /\ Resolution(last) = "NonExistentQueue") =>
        /\ last.how = "exit_json"
        /\ last.has_changed /\ ~last.changed
        /\ CallsOf(last, {"delete_queue"}) = {}

\* C5: with state=absent and an existing queue, the result has changed=true;
\* outside check mode delete_queue is called exactly once, on the resolved
\* queue, in check mode it is not called; no attribute is read or written.
C5_AbsentExisting ==
    (last.state = "absent" /\ Resolution(last) = "ok") =>
        /\ last.how = "exit_json"
        /\ ReportedChanged(last)
        /\ CallsOf(last, {"get_queue_attributes", "set_queue_attributes"}) = {}
        /\ last.check_mode => CallsOf(last, {"delete_queue"}) = {}
        /\ ~last.check_mode =>
              /\ Cardinality(CallsOf(last, {"delete_queue"})) = 1
              /\ \A i \in CallsOf(last, {"delete_queue"}) :
                    /\ last.calls[i].name = last.calls[1].name
                    /\ ~queues[last.calls[i].name].exists

\* a queue was deleted
C5_Witness ==
    /\ last.state = "absent" /\ ~last.check_mode /\ Resolution(last) = "ok"
    /\ CallsOf(last, {"delete_queue"}) # {}

\* C6: when the remote Policy or RedrivePolicy string encodes the document
\* the task gives, in any key order and spacing, no set_queue_attributes is
\* made for it, and when nothing else is given changed is false.
C6_JsonSameDocumentNoWrite ==
    [][(last'.state = "present" /\ Resolution(last') = "ok") =>
          \A i \in JsonEntries :
             (/\ Given(params, i)
              /\ Encodes(queues[last'.name].attrs[Catalog[i].attribute],
                         params.attrs[Catalog[i].param].d)) =>
                /\ WritesOf(last', Catalog[i].attribute) = {}
                /\ (\A j \in 1..Len(Catalog) : Given(params, j) => j = i) =>
                      ~ReportedChanged(last')]_vars

\* C7: on an existing queue, a scalar attribute whose remote string equals
\* the case-normalized string form of the given value gets no
\* set_queue_attributes, and when this holds for all given attributes
\* changed is false.
C7_ScalarEqualNoWrite ==
    [][(last'.state = "present" /\ Resolution(last') = "ok" /\ last'.how = "exit_json") =>
          LET Equal(i) == /\ i \in ScalarEntries
                          /\ queues[last'.name].attrs[Catalog[i].attribute] =
                                ScalarForm(params.attrs[Catalog[i].param])
          IN /\ \A i \in ScalarEntries :
                   (Given(params, i) /\ Equal(i)) => WritesOf(last', Catalog[i].attribute) = {}
             /\ (\A i \in 1..Len(Catalog) : Given(params, i) => Equal(i)) =>
                   ~ReportedChanged(last')]_vars

\* C8: with state=present outside check mode, when the queue does not exist
\* and the invocation succeeds, create_queue is called exactly once, before
\* every attribute read and write, each given attribute that differs from
\* the new queue's value gets exactly one set_queue_attributes and the
\* others none, and changed is true.
C8_CreateThenSynchronize ==
    (/\ last.state = "present" /\ ~last.check_mode
     /\ Resolution(last) = "NonExistentQueue" /\ last.how = "exit_json") =>
        /\ Cardinality(CallsOf(last, {"create_queue"})) = 1
        /\ \A c \in CallsOf(last, {"create_queue"}) :
              \A i \in CallsOf(last, {"get_queue_attributes", "set_queue_attributes"}) : c < i
        /\ \A i \in 1..Len(Catalog) :
              Cardinality(WritesOf(last, Catalog[i].attribute)) =
                 IF /\ Given(params, i)
                    /\ ~SameValue(i, params.attrs[Catalog[i].param],
                                  NewQueueAttrs(params.queue_type = "fifo")[Catalog[i].attribute])
                 THEN 1 ELSE 0
        /\ ReportedChanged(last)

\* a queue was created and an attribute written
C8_Witness ==
    /\ last.state = "present" /\ ~last.check_mode
    /\ Resolution(last) = "NonExistentQueue" /\ last.how = "exit_json"
    /\ CallsOf(last, {"set_queue_attributes"}) # {}

\* the number of times the suffix occurs in a name
SuffixCount(name) == Cardinality({i \in 1..Len(name) : name[i] = ".fifo"})

\* C9: for queue_type fifo the name passed to get_queue_url and create_queue
\* ends with '.fifo' and holds the suffix once, also when the given name
\* already ends with '.fifo'.
C9_SuffixOnce ==
    (last.state = "present" /\ params.queue_type = "fifo") =>
        \A i \in CallsOf(last, {"get_queue_url", "create_queue"}) :
            EndsWithFifo(last.calls[i].name) /\ SuffixCount(last.calls[i].name) = 1

\* C10: with state=present, when get_queue_url fails with an error other
\* than 'queue does not exist', the invocation ends in fail_json and
\* create_queue is not called.
C10_ResolutionErrorIsFatal ==
    (last.state = "present" /\ Resolution(last) = "error") =>
        /\ last.how = "fail_json"
        /\ CallsOf(last, {"create_queue"}) = {}

\* the calls of run r, other than get_queue_url and the per-attribute reads,
\* that the service answered with an error
FatalCalls(r) ==
    {i \in 1..Len(r.calls) :
        /\ r.calls[i].res = "error"
        /\ \/ r.calls[i].op \in Mutating
           \/ r.calls[i].op = "get_queue_attributes" /\ r.calls[i].attribute = "All"}

\* C11: when create_queue, set_queue_attributes, delete_queue or the final
\* get_queue_attributes of all attributes fails, the invocation ends in
\* fail_json with a message, not in exit_json, and the failing call is the
\* last call it makes.
C11_RemoteErrorIsTerminal ==
    \A i \in FatalCalls(last) :
        /\ last.how = "fail_json"
        /\ last.msg # ""
        /\ i = Len(last.calls)

\* a set_queue_attributes failed after an attribute was read
C11_Witness ==
    /\ last.how = "fail_json"
    /\ \E i \in FatalCalls(last) : last.calls[i].op = "set_queue_attributes"

\* C12: with queue_type standard and fifo_content_based_deduplication set,
\* the invocation is rejected before any call to the service: it ends in
\* fail_json and its call log is empty.
C12_StandardDedupRejected ==
    (/\ last.state = "present" /\ params.queue_type = "standard"
     /\ params.attrs.fifo_content_based_deduplication = BoolV(TRUE)) =>
        /\ last.how = "fail_json"
        /\ last.calls = <<>>

\* the attributes whose values the result reports from the final read
ReportedAttributes(p) ==
    {"VisibilityTimeout", "MessageRetentionPeriod", "MaximumMessageSize",
     "DelaySeconds", "ReceiveMessageWaitTimeSeconds"}
    \cup (IF p.queue_type = "fifo" THEN {"ContentBasedDeduplication"} ELSE {})

\* C13: a successful invocation with state=present outside check mode reads
\* all attributes once, after every set_queue_attributes, and the values it
\* reports for the five scalar attributes, and for the deduplication flag
\* of a FIFO queue, are those the queue then holds; in check mode all
\* attributes are not read and no value is reported from the service.
C13_FinalValuesAreRemote ==
    (last.state = "present" /\ last.how = "exit_json") =>
        IF last.check_mode
        THEN ReadsOf(last, "All") = {} /\ ~last.has_final
        ELSE /\ last.has_final
             /\ ReadsOf(last, "All") = {Len(last.calls)}
             /\ \A a \in ReportedAttributes(params) :
                   last.final[a] = queues[last.name].attrs[a]

\* an existing queue was changed and its values read back
C13_Witness ==
    /\ last.state = "present" /\ ~last.check_mode /\ last.how = "exit_json"
    /\ Resolution(last) = "ok"
    /\ \E a \in ReportedAttributes(params) :
          WritesOf(last, a) # {} /\ last.final[a] # NewQueueAttrs(params.queue_type = "fifo")[a]

\* C14: the string a successful set_queue_attributes stores is the string
\* the comparison used: comparing the task's value with the stored string,
\* as set_queue_attribute does, finds them equal.
C14_WrittenIsCompared ==
    last.state = "present" =>
        \A i \in 1..Len(Catalog) :
            \A w \in WritesOf(last, Catalog[i].attribute) :
                last.calls[w].res = "ok" =>
                    LET attribute == Catalog[i].attribute
                        stored == normalized(attribute, last.calls[w].value)
                        wanted == desired_value(attribute, params.attrs[Catalog[i].param])
                    IN stored.exc = "none" /\ lower(str(wanted)) = stored.s

\* the value is the integer zero or the boolean false
Falsy(v) == v = IntV(0) \/ v = BoolV(FALSE)

\* run r synchronized the attributes: of an existing queue, or of the queue
\* it created
Synchronized(r) ==
    /\ r.state = "present"
    /\ \/ Resolution(r) = "ok"
       \/ Resolution(r) = "NonExistentQueue" /\ ~r.check_mode

\* the value of attribute a when the synchronization of run r started, qs
\* the queues before the run
PriorValue(qs, p, r, a) ==
    IF Resolution(r) = "ok" THEN qs[r.name].attrs[a]
    ELSE NewQueueAttrs(p.queue_type = "fifo")[a]

\* C15 as stated: an attribute given as integer zero or boolean false is
\* neither read nor written.
C15_FalsyTreatedAsAbsent ==
    Synchronized(last) =>
        \A i \in ScalarEntries :
            (Given(params, i) /\ Falsy(params.attrs[Catalog[i].param])) =>
                /\ ReadsOf(last, Catalog[i].attribute) = {}
                /\ WritesOf(last, Catalog[i].attribute) = {}

\* C15 amended: an attribute given as integer zero or boolean false is
\* treated as set: it is read once; when the remote value differs from '0'
\* or 'false' the run reports changed and, outside check mode, writes it
\* once; when the remote value is equal it is not written.
C15_FalsyTreatedAsSet ==
    [][(Synchronized(last') /\ last'.how = "exit_json") =>
          \A i \in ScalarEntries :
              (Given(params, i) /\ Falsy(params.attrs[Catalog[i].param])) =>
                  LET a == Catalog[i].attribute
                      v == params.attrs[Catalog[i].param]
                      differs == PriorValue(queues, params, last', a) # ScalarForm(v)
                  IN /\ Cardinality(ReadsOf(last', a)) = 1
                     /\ differs => ReportedChanged(last')
                     /\ Cardinality(WritesOf(last', a)) =
                           IF differs /\ ~last'.check_mode THEN 1 ELSE 0
                     /\ \A w \in WritesOf(last', a) : last'.calls[w].value = str(v)]_vars

\* a visibility timeout of 30 was set to the given 0
C15_Witness ==
    /\ Synchronized(last) /\ last.how = "exit_json" /\ Resolution(last) = "ok"
    /\ params.attrs.default_visibility_timeout = IntV(0)
    /\ \E w \in WritesOf(last, "VisibilityTimeout") : last.calls[w].value = IntToStr(0)

\* the task p leaves the i-th catalog attribute unset: None, the empty
\* document, or the deduplication flag of a queue that is not FIFO
Unset(p, i) == ~Given(p, i)

\* C16: an attribute the task leaves unset, or gives as an empty document,
\* is neither read nor written, the queue holds the same value for it after
\* the invocation as before, and when every attribute is unset the run on
\* an existing queue reports changed=false.
C16_UnsetIsSkipped ==
    [][(last'.state = "present" /\ Resolution(last') = "ok") =>
          /\ \A i \in 1..Len(Catalog) :
                Unset(params, i) =>
                    /\ ReadsOf(last', Catalog[i].attribute) = {}
                    /\ WritesOf(last', Catalog[i].attribute) = {}
                    /\ queues'[last'.name].attrs[Catalog[i].attribute] =
                          queues[last'.name].attrs[Catalog[i].attribute]
          /\ (\A i \in 1..Len(Catalog) : Unset(params, i)) =>
                (last'.how = "exit_json" /\ ~ReportedChanged(last'))]_vars

\* an empty policy document was given for a queue that holds a policy, and
\* another attribute was written
C16_Witness ==
    /\ last.state = "present" /\ ~last.check_mode /\ Resolution(last) = "ok"
    /\ params.attrs.policy = DictV(<<>>)
    /\ queues[last.name].exists /\ queues[last.name].attrs["Policy"] # <<>>
    /\ CallsOf(last, {"set_queue_attributes"}) # {}

\* C17: when the Policy or RedrivePolicy string of the queue is not empty
\* and is not JSON, and the task gives a document for it, the invocation
\* does not abort: it exits successfully, reports changed and, outside
\* check mode, writes the given document.
C17_UnparsableIsNoDocument ==
    [][(last'.state = "present" /\ Resolution(last') = "ok") =>
          \A i \in JsonEntries :
              (/\ Given(params, i)
               /\ queues[last'.name].attrs[Catalog[i].attribute] # <<>>
               /\ ~json_loads(queues[last'.name].attrs[Catalog[i].attribute]).ok) =>
                  /\ last'.how = "exit_json"
                  /\ ReportedChanged(last')
                  /\ ~last'.check_mode =>
                        \E w \in WritesOf(last', Catalog[i].attribute) :
                            last'.calls[w].value = json_dumps(params.attrs[Catalog[i].param].d)]_vars

\* the per-attribute reads of run r that the service answered with an error
FailedReads(r) ==
    {i \in CallsOf(r, {"get_queue_attributes"}) :
        r.calls[i].attribute # "All" /\ r.calls[i].res = "error"}

\* C18: when the read of one attribute fails, the existing value is taken
\* as empty: the invocation still exits successfully and reports changed,
\* outside check mode the next call writes the given value of that
\* attribute, and every other given attribute is still read.
C18_ReadFailureIsNotFatal ==
    \A i \in FailedReads(last) :
        /\ last.how = "exit_json"
        /\ ReportedChanged(last)
        /\ ~last.check_mode =>
              /\ i + 1 \in WritesOf(last, last.calls[i].attribute)
              /\ \E k \in 1..Len(Catalog) :
                    /\ Catalog[k].attribute = last.calls[i].attribute
                    /\ last.calls[i + 1].value =
                          str(desired_value(Catalog[k].attribute, params.attrs[Catalog[k].param]))
        /\ \A k \in 1..Len(Catalog) :
              Given(params, k) => ReadsOf(last, Catalog[k].attribute) # {}

\* the read of a first attribute failed and a later attribute was read
C18_Witness ==
    /\ last.how = "exit_json" /\ ~last.check_mode
    /\ \E i \in FailedReads(last) :
          \E j \in CallsOf(last, {"get_queue_attributes"}) :
              j > i /\ last.calls[j].attribute \notin {"All", last.calls[i].attribute}

\* the attributes read one by one in run r, in the order of the calls
ReadOrder(r) ==
    LET reads == SelectSeq(r.calls,
                     LAMBDA c : c.op = "get_queue_attributes" /\ c.attribute # "All")
    IN [k \in 1..Len(reads) |-> reads[k].attribute]

\* the attributes the task p gives, in catalog order
GivenOrder(p) ==
    LET given == SelectSeq([k \in 1..Len(Catalog) |-> k], LAMBDA k : Given(p, k))
    IN [k \in 1..Len(given) |-> Catalog[given[k]].attribute]

\* the comparison of the i-th catalog attribute of task p with the queue's
\* string raw finds them different
FoundDifferent(p, i, raw) ==
    lower(str(desired_value(Catalog[i].attribute, p.attrs[Catalog[i].param])))
       # normalized(Catalog[i].attribute, raw).s

\* C19: in a synchronization in which no call fails, the given attributes
\* are read in catalog order, each once, also after an attribute was found
\* different, and for an existing queue changed is the disjunction of the
\* results for the given attributes: outside check mode an attribute found
\* different is the one written.
C19_AllComparedInOrder ==
    [][(Synchronized(last') /\ last'.how = "exit_json") =>
          /\ ReadOrder(last') = GivenOrder(params)
          /\ \A i \in 1..Len(Catalog) :
                Given(params, i) =>
                    (~last'.check_mode =>
                        (WritesOf(last', Catalog[i].attribute) # {} <=>
                            FoundDifferent(params, i,
                                PriorValue(queues, params, last', Catalog[i].attribute))))
          /\ Resolution(last') = "ok" =>
                (last'.changed <=>
                    \E i \in 1..Len(Catalog) :
                        /\ Given(params, i)
                        /\ FoundDifferent(params, i, queues[last'.name].attrs[Catalog[i].attribute]))]_vars

\* the first of two given attributes was found different and written, the
\* second was read after it
C19_Witness ==
    /\ Synchronized(last) /\ last.how = "exit_json" /\ Resolution(last) = "ok"
    /\ Len(ReadOrder(last)) >= 2
    /\ WritesOf(last, ReadOrder(last)[1]) # {}

\* the catalog entries other than the deduplication flag
OtherEntries == {i \in 1..Len(Catalog) : Catalog[i].attribute # "ContentBasedDeduplication"}

\* C20: with queue_type standard, whatever value the task gives for
\* fifo_content_based_deduplication, ContentBasedDeduplication is neither
\* read nor written, and changed for an existing queue is decided by the
\* other attributes alone: it is true exactly when one of them is given
\* and found different.
C20_StandardIgnoresDeduplication ==
    [][(last'.state = "present" /\ params.queue_type = "standard") =>
          /\ ReadsOf(last', "ContentBasedDeduplication") = {}
          /\ WritesOf(last', "ContentBasedDeduplication") = {}
          /\ (Resolution(last') = "ok" /\ last'.how = "exit_json") =>
                (ReportedChanged(last') <=>
                    \E i \in OtherEntries :
                        /\ params.attrs[Catalog[i].param] \notin {None, DictV(<<>>)}
                        /\ FoundDifferent(params, i,
                                          queues[last'.name].attrs[Catalog[i].attribute]))]_vars

\* a standard queue was synchronized with the flag set
C20_Witness ==
    /\ last.state = "present" /\ params.queue_type = "standard"
    /\ params.attrs.fifo_content_based_deduplication = BoolV(TRUE)
    /\ last.how = "exit_json" /\ ReportedChanged(last) /\ Resolution(last) = "ok"

\* C21: every create_queue call carries the FifoQueue attribute exactly
\* when queue_type is fifo, no set_queue_attributes call targets FifoQueue,
\* and a queue that exists before and after an invocation is of the same
\* type after it as before.
C21_FifoFlagOnlyAtCreation ==
    [][last'.state = "present" =>
          /\ \A c \in CallsOf(last', {"create_queue"}) :
                last'.calls[c].fifo = (params.queue_type = "fifo")
          /\ \A w \in CallsOf(last', {"set_queue_attributes"}) :
                last'.calls[w].attribute # "FifoQueue"
          /\ \A n \in RemoteNames :
                (queues[n].exists /\ queues'[n].exists) => queues'[n].fifo = queues[n].fifo]_vars

\* a FIFO queue was created and an attribute of it written
C21_Witness ==
    /\ last.state = "present" /\ last.how = "exit_json"
    /\ \E c \in CallsOf(last, {"create_queue"}) : last.calls[c].fifo /\ last.calls[c].res = "ok"
    /\ CallsOf(last, {"set_queue_attributes"}) # {}
    /\ queues[last.name].fifo

\* how the invocation with outcome o ended and the changed flag it reported
Verdict(o) == <<o.how, o.has_changed /\ o.changed>>

\* C22: on an existing queue, an invocation in check mode ends the same way
\* and reports the same changed flag as the invocation with the same
\* parameters outside check mode, started from the same queues.
C22_DryRunPredictsChanged ==
    [][(last'.state = "present" /\ last'.check_mode /\ Resolution(last') = "ok") =>
          <<last'.how, ReportedChanged(last')>> =
             Verdict(create_or_update_sqs_queue(queues, params, FALSE, 0))]_vars

\* a check-mode run on an existing queue reported a change for an attribute
\* that is not the first one given
C22_Witness ==
    /\ last.state = "present" /\ last.check_mode /\ Resolution(last) = "ok"
    /\ last.how = "exit_json" /\ ReportedChanged(last)
    /\ Len(ReadOrder(last)) >= 2
    /\ ~FoundDifferent(params, CHOOSE i \in 1..Len(Catalog) : Catalog[i].attribute = ReadOrder(last)[1],
                       queues[last.name].attrs[ReadOrder(last)[1]])

\* run r created a FIFO queue
CreatedFifo(r) ==
    /\ r.state = "present" /\ ~r.check_mode /\ r.how = "exit_json"
    /\ \E c \in CallsOf(r, {"create_queue"}) : r.calls[c].fifo /\ r.calls[c].res = "ok"

\* C23: after an invocation with state=present and queue_type fifo has
\* created a queue, the next invocation with state=absent, the same
\* parameters and no check mode resolves that queue, deletes it and exits
\* successfully, and the queue no longer exists.
C23_FifoCreateDeleteRoundTrip ==
    [][(CreatedFifo(last) /\ last'.state = "absent" /\ ~last'.check_mode) =>
          /\ last'.how = "exit_json"
          /\ \E d \in CallsOf(last', {"delete_queue"}) : last'.calls[d].name = last.name
          /\ ~queues'[last.name].exists]_vars

\* the set_queue_attributes calls of a call log, in order, as attribute and
\* value
WriteSequence(calls) ==
    LET writes == SelectSeq(calls, LAMBDA c : c.op = "set_queue_attributes")
    IN [k \in 1..Len(writes) |-> <<writes[k].attribute, writes[k].value>>]

\* C24: for state=present and queue_type standard on an existing queue,
\* src/sqs_queue.py started from the same queues with the same parameters
\* makes the same sequence of set_queue_attributes calls and reports the
\* same changed flag as src/sqs_queue/sqs_queue.py.
C24_ImplementationsAgree ==
    [][(/\ last'.state = "present" /\ params.queue_type = "standard"
        /\ Resolution(last') = "ok" /\ ~queues[last'.name].fifo
        /\ last'.how = "exit_json") =>
          /\ WriteSequence(legacy_create_or_update_sqs_queue(
                               queues, params, last'.check_mode, 0).calls)
                = WriteSequence(last'.calls)
          /\ Verdict(legacy_create_or_update_sqs_queue(queues, params, last'.check_mode, 0))
                = <<last'.how, ReportedChanged(last')>>]_vars

====
